---- MODULE Spec2Model ----
(***************************************************************************)
(* apt_exporter: a Prometheus collector that caches the parsed output of   *)
(* `apt list --installed` and `apt list --upgradable`, refreshes the cache *)
(* from a goroutine driven by fsnotify events, and serves scrapes from the *)
(* cache alone.                                                            *)
(*                                                                         *)
(* Text is modelled as sequences of one-character strings, so that the     *)
(* line scanner, the regular expression and strings.Split are computed     *)
(* character by character as the code computes them.                       *)
(***************************************************************************)
EXTENDS Integers, Sequences, FiniteSets, TLC

VARIABLES
    client,   \* who drives the exporter: "main" (func main) or "test" (a caller of the methods)
    pc,       \* pc["main"]: the goroutine that calls NewAptExporter and Watch;
              \* pc["loop"]: the goroutine started by Watch (the event loop)
    cur,      \* evt.Name of the event the loop consumed last
    lLog,     \* refreshes the loop attempted for that event: <<[kind, ok]>>
    out,      \* out[t]: << >>, or <<o>> for the output o goroutine t holds between Output() and Set
    cache,    \* e.cache: key -> Found(snapshot) or NotFound
    age,      \* age[t]: whether a later run of the command of its kind has returned
              \* than the one whose output goroutine t holds
    watched,  \* the paths registered with e.watcher.Add
    events,   \* e.watcher.Events: the events waiting to be received
    errs,     \* e.watcher.Errors: number of errors waiting to be received
    closed,   \* e.watcher.Close has been called
    cpc,      \* position of the goroutine serving a scrape (Collect)
    view,     \* view[k]: what Collect got from the cache for key k in this scrape
    statRes,  \* outcome of os.Stat on the reboot marker in this scrape
    ch        \* the metrics sent on ch by this scrape, in order

vars == <<client, pc, cur, lLog, out, cache, age, watched, events,
          errs, closed, cpc, view, statRes, ch>>

-----------------------------------------------------------------------------
(* Bounds of the model *)

MaxEvents == 1    \* events waiting in the watcher at once
MaxErrs == 1      \* watcher errors waiting at once

-----------------------------------------------------------------------------
(* Constants of the program *)

CACHE_INSTALLED_PACKAGES == "installed_packages"
CACHE_UPGRADEABLE_PACKAGES == "upgradeable_packages"
Kinds == {CACHE_INSTALLED_PACKAGES, CACHE_UPGRADEABLE_PACKAGES}

HistoryLog == "/var/log/apt/history.log"
PeriodicDir == "/var/lib/apt/periodic/"
UpdateStamp == "/var/lib/apt/periodic/update-stamp"
UpdateSuccessStamp == "/var/lib/apt/periodic/update-success-stamp"
\* some other file of the watched directory
OtherPeriodicFile == "/var/lib/apt/periodic/upgrade-stamp"

Threads == {"main", "loop"}

\* what cache.Get returns: (ps, f)
\* nothing that is held comes from a run that a later one has followed
Latest == [t \in Threads |-> "latest"]

NotFound == [found |-> FALSE, ps |-> << >>]
Found(ps) == [found |-> TRUE, ps |-> ps]

\* what Collect holds for a key: not asked yet, or the result of cache.Get
Unread == [read |-> FALSE, found |-> FALSE, ps |-> << >>]
Read(item) == [read |-> TRUE, found |-> item.found, ps |-> item.ps]

StatOutcomes == {"exists", "notexist", "error"}

-----------------------------------------------------------------------------
(* Text helpers *)

SP == " "
NL == "\n"
CR == "\r"
SLASH == "/"
COMMA == ","

\* index of the first occurrence of c in s at or after i, 0 if none
IndexFrom(s, c, i) ==
    LET at == { j \in i..Len(s) : s[j] = c } IN
    IF at = {} THEN 0
    ELSE CHOOSE j \in at : \A m \in at : j <= m

\* bufio.MaxScanTokenSize, the buffer limit of a Scanner made by NewScanner
MaxScanTokenSize == 65536

\* bufio.ScanLines: dropCR
DropCR(line) ==
    IF Len(line) > 0 /\ line[Len(line)] = CR
    THEN SubSeq(line, 1, Len(line) - 1)
    ELSE line

\* bufio.Scanner with ScanLines over the whole output: the lines, in order,
\* for as long as sc.Scan() returns true.  A line that does not end within
\* the buffer makes Scan return false (ErrTooLong, which parseAptOutput does
\* not look at): the scan ends before that line.
RECURSIVE ScanLines(_)
ScanLines(data) ==
    IF Len(data) = 0 THEN << >>
    ELSE LET i == IndexFrom(data, NL, 1) IN
         IF i = 0
         THEN IF Len(data) >= MaxScanTokenSize THEN << >>
              ELSE << DropCR(data) >>
         ELSE IF i - 1 >= MaxScanTokenSize THEN << >>
              ELSE << DropCR(SubSeq(data, 1, i - 1)) >>
                   \o ScanLines(SubSeq(data, i + 1, Len(data)))

\* strings.Split(s, ","): the pieces between the commas, empty ones included
RECURSIVE Split(_)
Split(s) ==
    LET i == IndexFrom(s, COMMA, 1) IN
    IF i = 0 THEN << s >>
    ELSE << SubSeq(s, 1, i - 1) >> \o Split(SubSeq(s, i + 1, Len(s)))

Range(s) == { s[i] : i \in 1..Len(s) }

\* unique: keeps the first occurrence of each value, in order
RECURSIVE UniqueFrom(_, _)
UniqueFrom(src, dst) ==
    IF Len(src) = 0 THEN dst
    ELSE UniqueFrom(Tail(src),
                    IF Head(src) \in Range(dst) THEN dst
                    ELSE Append(dst, Head(src)))

unique(src) == UniqueFrom(src, << >>)

\* end of the run of non-space characters of s that starts at i (i - 1 if empty)
RECURSIVE RunEnd(_, _)
RunEnd(s, i) ==
    IF i > Len(s) \/ s[i] = SP THEN i - 1
    ELSE RunEnd(s, i + 1)

\* the last "/" of s at an index in lo..hi, 0 if none
RECURSIVE LastSlash(_, _, _)
LastSlash(s, lo, hi) ==
    IF hi < lo THEN 0
    ELSE IF s[hi] = SLASH THEN hi
    ELSE LastSlash(s, lo, hi - 1)

(* The regular expression ^([^ ]+)\/([^ ]+) [^ ]+ ([^ ]+) on one line.      *)
(* Group 2 must be followed by a space, so it ends where the first          *)
(* space-free run ends; group 1 is greedy, so the "/" is the last one that  *)
(* leaves both groups non-empty.  The version token is a whole space-free   *)
(* run and group 3 is the space-free run after it.                          *)
(* The result is << >> (no match) or <<name, suites, architecture>>.        *)
Match(line) ==
    LET e1 == RunEnd(line, 1)                 \* end of the first run
        sl == LastSlash(line, 2, e1 - 1)
        e2 == RunEnd(line, e1 + 2)            \* end of the version token
        e3 == RunEnd(line, e2 + 2)            \* end of the architecture
    IN  IF /\ e1 >= 3 /\ e1 < Len(line)
           /\ sl # 0
           /\ e2 >= e1 + 2 /\ e2 < Len(line)
           /\ e3 >= e2 + 2
        THEN << SubSeq(line, 1, sl - 1),
                SubSeq(line, sl + 1, e1),
                SubSeq(line, e2 + 2, e3) >>
        ELSE << >>

Package(ms) ==
    [Name |-> ms[1], Suites |-> unique(Split(ms[2])), Architecture |-> ms[3]]

RECURSIVE ParseLines(_)
ParseLines(lines) ==
    IF Len(lines) = 0 THEN << >>
    ELSE LET ms == Match(Head(lines)) IN
         (IF Len(ms) = 0 THEN << >> ELSE << Package(ms) >>)
         \o ParseLines(Tail(lines))

parseAptOutput(raw) == ParseLines(ScanLines(raw))

-----------------------------------------------------------------------------
(* What /usr/bin/apt list can print.  Package a stands for the line          *)
(* "nginx/stable,stable-updates 1.18.0 amd64 [installed]": suites s and u,   *)
(* architecture x.  Package b lists the suite s twice; package c has suite   *)
(* u and architecture y, on a last line without a newline.                   *)

Header == <<"L", "i", "s", "t", "i", "n", "g", ".", ".", ".">>
LineA == <<"a", "/", "s", ",", "u", " ", "1", " ", "x", " ", "[", "i", "]">>
LineB == <<"b", "/", "s", ",", "s", " ", "2", " ", "x">>

LineC == <<"c", "/", "u", " ", "3", " ", "y">>

OutNone == Header \o <<NL>>
OutOne == Header \o <<NL>> \o LineA \o <<NL>>
OutMixed == Header \o <<NL>> \o LineA \o <<NL>> \o LineC
OutTwo == Header \o <<NL>> \o LineA \o <<NL>> \o LineB \o <<NL>>

\* the listings a command run of the model returns
RawOutputs == {OutNone, OutTwo}

\* the listings whose parse a cache handed to Collect may hold
SnapshotOutputs == RawOutputs \cup {OutOne, OutMixed}

-----------------------------------------------------------------------------
(* Metrics *)

AptUp == "apt_up"
AptRebootRequired == "apt_reboot_required"
AptPackagesInstalled == "apt_packages_installed"
AptPackagesUpgradeable == "apt_packages_upgradeable"

\* A sample: labels is << >> for a gauge without labels and, for the two
\* counter families, <<value of label "architecture", value of label "suite">>
\* (the order in which NewCounterVec declares the label names).
Sample(name, labels, value) == [name |-> name, labels |-> labels, value |-> value]

Up(v) == Sample(AptUp, << >>, v)
RebootRequired(v) == Sample(AptRebootRequired, << >>, v)

\* CounterVec.WithLabelValues(lvs...).Inc(): the child for lvs is created at 0
Inc(vec, lvs) ==
    IF lvs \in DOMAIN vec THEN [vec EXCEPT ![lvs] = @ + 1]
    ELSE vec @@ (lvs :> 1)

\* the label values the installed family passes, positionally
InstalledLabelValues(p, s) == << s, p.Architecture >>

\* as UpgradeableLabelValues, but in the order the installed family passes
UpgradeableLabelValuesSuiteFirst(p, s) == << s, p.Architecture >>

\* the label values the upgradeable family passes, positionally
UpgradeableLabelValues(p, s) == << p.Architecture, s >>

LabelValues(name, p, s) ==
    IF name = AptPackagesInstalled THEN InstalledLabelValues(p, s)
    ELSE UpgradeableLabelValues(p, s)

RECURSIVE CountSuites(_, _, _, _)
CountSuites(vec, name, p, suites) ==
    IF Len(suites) = 0 THEN vec
    ELSE CountSuites(Inc(vec, LabelValues(name, p, Head(suites))),
                     name, p, Tail(suites))

RECURSIVE CountPackages(_, _, _)
CountPackages(vec, name, ps) ==
    IF Len(ps) = 0 THEN vec
    ELSE CountPackages(CountSuites(vec, name, Head(ps), Head(ps).Suites),
                       name, Tail(ps))

EmptyVec == [lvs \in {} |-> 0]

\* the samples CounterVec.Collect sends for the snapshot ps
VecSamples(name, ps) ==
    LET vec == CountPackages(EmptyVec, name, ps) IN
    { Sample(name, lvs, vec[lvs]) : lvs \in DOMAIN vec }

\* CounterVec.Collect ranges over a map: the samples go out in any order
Orderings(S) ==
    { q \in [1..Cardinality(S) -> S] : Range(q) = S }

-----------------------------------------------------------------------------
(* The state after the process, or the test, has started *)

InitCommon ==
    /\ pc = [t \in Threads |-> IF t = "main" THEN "new" ELSE "none"]
    /\ cur = ""
    /\ lLog = << >>
    /\ out = [t \in Threads |-> << >>]
    /\ cache = [k \in Kinds |-> NotFound]
    /\ age = Latest
    /\ watched = {}
    /\ events = << >>
    /\ errs = 0
    /\ closed = FALSE
    /\ cpc = "idle"
    /\ view = [k \in Kinds |-> Unread]
    /\ statRes = "none"
    /\ ch = << >>

Init == client = "main" /\ InitCommon
InitTest == client = "test" /\ InitCommon

\* Collect called on an exporter whose cache holds any combination of
\* snapshots, those that main never serves from included
InitCollect ==
    /\ client = "test"
    /\ pc = [t \in Threads |-> IF t = "main" THEN "returned" ELSE "select"]
    /\ cur = ""
    /\ lLog = << >>
    /\ out = [t \in Threads |-> << >>]
    /\ cache \in [Kinds -> {NotFound} \cup { Found(parseAptOutput(o)) : o \in SnapshotOutputs }]
    /\ age = Latest
    /\ watched = {HistoryLog, PeriodicDir}
    /\ events = << >>
    /\ errs = 0
    /\ closed = FALSE
    /\ cpc = "idle"
    /\ view = [k \in Kinds |-> Unread]
    /\ statRes = "none"
    /\ ch = << >>

\* os.Exit ends every goroutine
Alive == pc["main"] # "exit"

\* as AfterWatchError, but main only logs the error of Watch and goes on
AfterWatchErrorLogsOnly == IF client = "main" THEN "register" ELSE "failed"

\* where the calling goroutine goes when Watch returns an error:
\* main logs it and exits (lines 363-366), a test keeps the exporter
AfterWatchError == IF client = "main" THEN "exit" ELSE "failed"

\* where it goes when Watch returns nil
AfterWatchOK == IF client = "main" THEN "register" ELSE "returned"

scrapeVars == <<cpc, view, statRes, ch>>
watcherVars == <<watched, events, errs, closed>>
refreshVars == <<out, cache, age>>

-----------------------------------------------------------------------------
(* NewAptExporter and the start of Watch *)

NewAptExporter ==
    /\ pc["main"] = "new"
    /\ \E ok \in BOOLEAN :
          pc' = [pc EXCEPT !["main"] = IF ok THEN "watch" ELSE "exit"]
    /\ UNCHANGED <<client, cur, lLog, refreshVars, watcherVars, scrapeVars>>

\* go func() { ... }()
WatchGo ==
    /\ pc["main"] = "watch"
    /\ pc' = [pc EXCEPT !["main"] = "cacheInst", !["loop"] = "select"]
    /\ UNCHANGED <<client, cur, lLog, refreshVars, watcherVars, scrapeVars>>

-----------------------------------------------------------------------------
(* cacheInstalledPackages and cacheUpgradeablePackages, run by goroutine t *)

KindAt(p) ==
    IF p \in {"cacheInst", "setInst"} THEN CACHE_INSTALLED_PACKAGES
    ELSE CACHE_UPGRADEABLE_PACKAGES

(* The order in which the runs of a listing command have returned, as far   *)
(* as it bears on an output that a goroutine holds: "latest" when no run of *)
(* the kind has returned after the one it comes from (or nothing is held),  *)
(* "older" when one has, "overtaken" when in addition the output of a later *)
(* run has already been stored under the key.                               *)

\* goroutine u holds an output of the kind goroutine t is refreshing
HoldsSameKind(u, t) ==
    /\ u # t
    /\ pc[u] \in {"setInst", "setUpg"}
    /\ KindAt(pc[u]) = KindAt(pc[t])

\* Output() returns to goroutine t: what another goroutine holds of that
\* kind comes from an earlier run
AgeAfterOutput(t) ==
    [x \in DOMAIN age |->
        IF x = t THEN "latest"
        ELSE IF HoldsSameKind(x, t) /\ age[x] = "latest" THEN "older"
        ELSE age[x]]

\* goroutine t stores what it holds: an older output of the kind that
\* another goroutine still holds has been overtaken
AgeAfterSet(t) ==
    [x \in DOMAIN age |->
        IF x = t THEN "latest"
        ELSE IF HoldsSameKind(x, t) /\ age[x] = "older" THEN "overtaken"
        ELSE age[x]]

\* as AfterRefresh, but Watch goes on when an initial refresh has failed
AfterRefreshWatchIgnoresError(t, p, ok) ==
    IF t = "main"
    THEN IF KindAt(p) = CACHE_INSTALLED_PACKAGES THEN "addHist"
         ELSE "addPeriodic"
    ELSE IF KindAt(p) = CACHE_INSTALLED_PACKAGES THEN "cacheUpg"
         ELSE "select"

\* as AfterRefresh, but the loop leaves the switch when a refresh has failed
AfterRefreshLoopStopsOnError(t, p, ok) ==
    IF t = "main"
    THEN IF ~ok THEN AfterWatchError
         ELSE IF KindAt(p) = CACHE_INSTALLED_PACKAGES THEN "addHist"
         ELSE "addPeriodic"
    ELSE IF ok /\ KindAt(p) = CACHE_INSTALLED_PACKAGES THEN "cacheUpg"
         ELSE "select"

\* where goroutine t continues after the refresh it is in has returned
AfterRefresh(t, p, ok) ==
    IF t = "main"
    THEN IF ~ok THEN AfterWatchError
         ELSE IF KindAt(p) = CACHE_INSTALLED_PACKAGES THEN "addHist"
         ELSE "addPeriodic"
    ELSE IF KindAt(p) = CACHE_INSTALLED_PACKAGES THEN "cacheUpg"
         ELSE "select"

Logged(t, k, ok) ==
    IF t = "loop" THEN Append(lLog, [kind |-> k, ok |-> ok]) ELSE lLog

\* as CommandFails, but the failed refresh deletes the entry of its kind
CommandFailsEvicts(t) ==
    /\ Alive
    /\ pc[t] \in {"cacheInst", "cacheUpg"}
    /\ lLog' = Logged(t, KindAt(pc[t]), FALSE)
    /\ pc' = [pc EXCEPT ![t] = AfterRefresh(t, pc[t], FALSE)]
    /\ cache' = [cache EXCEPT ![KindAt(pc[t])] = NotFound]
    /\ UNCHANGED <<client, cur, out, age, watcherVars, scrapeVars>>

\* exec.Command(...).Output() returns an error: the function returns it
CommandFails(t) ==
    /\ Alive
    /\ pc[t] \in {"cacheInst", "cacheUpg"}
    /\ lLog' = Logged(t, KindAt(pc[t]), FALSE)
    /\ pc' = [pc EXCEPT ![t] = AfterRefresh(t, pc[t], FALSE)]
    /\ UNCHANGED <<client, cur, out, cache, age, watcherVars, scrapeVars>>

\* exec.Command(...).Output() returns the listing o
CommandOutput(t) ==
    /\ Alive
    /\ pc[t] \in {"cacheInst", "cacheUpg"}
    /\ \E o \in RawOutputs : out' = [out EXCEPT ![t] = << o >>]
    /\ age' = AgeAfterOutput(t)
    /\ lLog' = Logged(t, KindAt(pc[t]), TRUE)
    /\ pc' = [pc EXCEPT ![t] = IF pc[t] = "cacheInst" THEN "setInst" ELSE "setUpg"]
    /\ UNCHANGED <<client, cur, cache, watcherVars, scrapeVars>>

\* as CacheSet, but the parsed records are appended to those of the entry
CacheSetAppends(t) ==
    /\ Alive
    /\ pc[t] \in {"setInst", "setUpg"}
    /\ cache' = [cache EXCEPT ![KindAt(pc[t])] =
                    Found((IF @.found THEN @.ps ELSE << >>)
                          \o parseAptOutput(out[t][1]))]
    /\ out' = [out EXCEPT ![t] = << >>]
    /\ age' = AgeAfterSet(t)
    /\ pc' = [pc EXCEPT ![t] = AfterRefresh(t, pc[t], TRUE)]
    /\ UNCHANGED <<client, cur, lLog, watcherVars, scrapeVars>>

\* the records of ps, then those of qs that ps does not hold
MergeRecords(ps, qs) ==
    ps \o SelectSeq(qs, LAMBDA q : q \notin Range(ps))

\* as CacheSet, but the parsed records are merged into those of the entry
CacheSetMerges(t) ==
    /\ Alive
    /\ pc[t] \in {"setInst", "setUpg"}
    /\ cache' = [cache EXCEPT ![KindAt(pc[t])] =
                    Found(MergeRecords(IF @.found THEN @.ps ELSE << >>,
                                       parseAptOutput(out[t][1])))]
    /\ out' = [out EXCEPT ![t] = << >>]
    /\ age' = AgeAfterSet(t)
    /\ pc' = [pc EXCEPT ![t] = AfterRefresh(t, pc[t], TRUE)]
    /\ UNCHANGED <<client, cur, lLog, watcherVars, scrapeVars>>

\* as CacheSet, but an entry that is present is kept (cache.Add)
CacheSetKeepsExisting(t) ==
    /\ Alive
    /\ pc[t] \in {"setInst", "setUpg"}
    /\ cache' = IF cache[KindAt(pc[t])].found THEN cache
                ELSE [cache EXCEPT ![KindAt(pc[t])] = Found(parseAptOutput(out[t][1]))]
    /\ out' = [out EXCEPT ![t] = << >>]
    /\ age' = AgeAfterSet(t)
    /\ pc' = [pc EXCEPT ![t] = AfterRefresh(t, pc[t], TRUE)]
    /\ UNCHANGED <<client, cur, lLog, watcherVars, scrapeVars>>

\* e.cache.Set(key, parseAptOutput(out), cache.DefaultExpiration)
CacheSet(t) ==
    /\ Alive
    /\ pc[t] \in {"setInst", "setUpg"}
    /\ cache' = [cache EXCEPT ![KindAt(pc[t])] = Found(parseAptOutput(out[t][1]))]
    /\ out' = [out EXCEPT ![t] = << >>]
    /\ age' = AgeAfterSet(t)
    /\ pc' = [pc EXCEPT ![t] = AfterRefresh(t, pc[t], TRUE)]
    /\ UNCHANGED <<client, cur, lLog, watcherVars, scrapeVars>>

-----------------------------------------------------------------------------
(* The rest of Watch: the two registrations *)

\* e.watcher.Add(path), after which Watch is at position next
WatcherAdd(at, path, next) ==
    /\ Alive
    /\ pc["main"] = at
    /\ \/ /\ ~closed
          /\ watched' = watched \cup {path}
          /\ pc' = [pc EXCEPT !["main"] = next]
       \/ /\ watched' = watched
          /\ pc' = [pc EXCEPT !["main"] = AfterWatchError]
    /\ UNCHANGED <<client, cur, lLog, refreshVars, events, errs, closed, scrapeVars>>

AddHistoryLog == WatcherAdd("addHist", HistoryLog, "cacheUpg")
AddPeriodicDir == WatcherAdd("addPeriodic", PeriodicDir, AfterWatchOK)

\* main, after Watch returned nil: MustRegister, then ListenAndServe,
\* which serves or fails to bind
RegisterAndListen ==
    /\ pc["main"] = "register"
    /\ \E ok \in BOOLEAN :
          pc' = [pc EXCEPT !["main"] = IF ok THEN "serve" ELSE "exit"]
    /\ UNCHANGED <<client, cur, lLog, refreshVars, watcherVars, scrapeVars>>

-----------------------------------------------------------------------------
(* The watcher: what fsnotify delivers *)

PeriodicFiles == {UpdateStamp, UpdateSuccessStamp, OtherPeriodicFile}
EventPaths == {HistoryLog} \cup PeriodicFiles

\* the watch that reports path p is registered
Covered(p) ==
    \/ p = HistoryLog /\ HistoryLog \in watched
    \/ p \in PeriodicFiles /\ PeriodicDir \in watched

\* the kernel reports a change of path p
Notify(p) ==
    /\ Alive
    /\ ~closed
    /\ Covered(p)
    /\ Len(events) < MaxEvents
    /\ events' = Append(events, p)
    /\ UNCHANGED <<client, pc, cur, lLog, refreshVars, watched, errs, closed, scrapeVars>>

\* the watcher reports an error of its own
WatchError ==
    /\ Alive
    /\ ~closed
    /\ watched # {}
    /\ errs < MaxErrs
    /\ errs' = errs + 1
    /\ UNCHANGED <<client, pc, cur, lLog, refreshVars, watched, events, closed, scrapeVars>>

\* e.watcher.Close(): both channels are closed, what waited is dropped
Close ==
    /\ client = "test"
    /\ pc["main"] \notin {"new", "exit"}
    /\ ~closed
    /\ closed' = TRUE
    /\ events' = << >>
    /\ errs' = 0
    /\ UNCHANGED <<client, pc, cur, lLog, refreshVars, watched, scrapeVars>>

-----------------------------------------------------------------------------
(* The event loop of Watch *)

\* as Dispatch, but the stamp files are handled like the history log
DispatchStampAsHistory(name) ==
    IF name \in {HistoryLog, UpdateStamp, UpdateSuccessStamp} THEN "cacheInst"
    ELSE "select"

\* as Dispatch, but every file of the watched directory refreshes
DispatchAnyPeriodicFile(name) ==
    IF name = HistoryLog THEN "cacheInst"
    ELSE "cacheUpg"

\* switch evt.Name: the position of the loop after the switch has chosen
Dispatch(name) ==
    IF name = HistoryLog THEN "cacheInst"
    ELSE IF name \in {UpdateStamp, UpdateSuccessStamp} THEN "cacheUpg"
    ELSE "select"

\* case evt, ok := <-e.watcher.Events, with ok
LoopEvent ==
    /\ Alive
    /\ pc["loop"] = "select"
    /\ events # << >>
    /\ cur' = Head(events)
    /\ events' = Tail(events)
    /\ lLog' = << >>
    /\ pc' = [pc EXCEPT !["loop"] = Dispatch(Head(events))]
    /\ UNCHANGED <<client, refreshVars, watched, errs, closed, scrapeVars>>

\* as LoopError, but the loop returns after it has logged the error
LoopErrorReturns ==
    /\ Alive
    /\ pc["loop"] = "select"
    /\ errs > 0
    /\ errs' = errs - 1
    /\ pc' = [pc EXCEPT !["loop"] = "stopped"]
    /\ UNCHANGED <<client, cur, lLog, refreshVars, watched, events, closed, scrapeVars>>

\* case err, ok := <-e.watcher.Errors, with ok: log.Errorln(err)
LoopError ==
    /\ Alive
    /\ pc["loop"] = "select"
    /\ errs > 0
    /\ errs' = errs - 1
    /\ UNCHANGED <<client, pc, cur, lLog, refreshVars, watched, events, closed, scrapeVars>>

\* either case with !ok: return
LoopClosed ==
    /\ Alive
    /\ pc["loop"] = "select"
    /\ closed
    /\ pc' = [pc EXCEPT !["loop"] = "stopped"]
    /\ UNCHANGED <<client, cur, lLog, refreshVars, watcherVars, scrapeVars>>

-----------------------------------------------------------------------------
(* Collect *)

\* a scrape can reach the collector: main registers it after Watch returned
\* nil; a test may call Collect on any exporter it has constructed
CanScrape ==
    IF client = "main" THEN pc["main"] = "serve"
    ELSE pc["main"] \notin {"new", "exit"}

\* as CollectFrame, but a scrape runs the installed listing and caches it
CollectFrameReadThrough ==
    /\ \E o \in RawOutputs :
          cache' = [cache EXCEPT ![CACHE_INSTALLED_PACKAGES] = Found(parseAptOutput(o))]
    /\ UNCHANGED <<client, pc, cur, lLog, out, age, watcherVars>>

\* what no statement of Collect or of the three collect functions touches
CollectFrame == UNCHANGED <<client, pc, cur, lLog, refreshVars, watcherVars>>

\* as CollectInstalled, but Collect does not return after the up = 0
CollectInstalledMissGoesOn ==
    /\ Alive
    /\ CanScrape
    /\ cpc = "idle"
    /\ LET item == cache[CACHE_INSTALLED_PACKAGES] IN
          /\ view' = [k \in Kinds |->
                        IF k = CACHE_INSTALLED_PACKAGES THEN Read(item) ELSE Unread]
          /\ statRes' = "none"
          /\ IF ~item.found
             THEN ch' = << Up(0) >>
             ELSE \E q \in Orderings(VecSamples(AptPackagesInstalled, item.ps)) :
                     ch' = q
          /\ cpc' = "upgradeable"
    /\ CollectFrame

\* collectInstalledPackages and, when it fails, the up = 0 of Collect
CollectInstalled ==
    /\ Alive
    /\ CanScrape
    /\ cpc = "idle"
    /\ LET item == cache[CACHE_INSTALLED_PACKAGES] IN
          /\ view' = [k \in Kinds |->
                        IF k = CACHE_INSTALLED_PACKAGES THEN Read(item) ELSE Unread]
          /\ statRes' = "none"
          /\ IF ~item.found
             THEN /\ ch' = << Up(0) >>
                  /\ cpc' = "idle"
             ELSE /\ \E q \in Orderings(VecSamples(AptPackagesInstalled, item.ps)) :
                        ch' = q
                  /\ cpc' = "upgradeable"
    /\ CollectFrame

\* as CollectUpgradeable, but Collect does not return after the up = 0
CollectUpgradeableMissGoesOn ==
    /\ Alive
    /\ cpc = "upgradeable"
    /\ LET item == cache[CACHE_UPGRADEABLE_PACKAGES] IN
          /\ view' = [view EXCEPT ![CACHE_UPGRADEABLE_PACKAGES] = Read(item)]
          /\ IF ~item.found
             THEN ch' = Append(ch, Up(0))
             ELSE \E q \in Orderings(VecSamples(AptPackagesUpgradeable, item.ps)) :
                     ch' = ch \o q
          /\ cpc' = "reboot"
    /\ statRes' = statRes
    /\ CollectFrame

\* collectUpgradeablePackages and, when it fails, the up = 0 of Collect
CollectUpgradeable ==
    /\ Alive
    /\ cpc = "upgradeable"
    /\ LET item == cache[CACHE_UPGRADEABLE_PACKAGES] IN
          /\ view' = [view EXCEPT ![CACHE_UPGRADEABLE_PACKAGES] = Read(item)]
          /\ IF ~item.found
             THEN /\ ch' = Append(ch, Up(0))
                  /\ cpc' = "idle"
             ELSE /\ \E q \in Orderings(VecSamples(AptPackagesUpgradeable, item.ps)) :
                        ch' = ch \o q
                  /\ cpc' = "reboot"
    /\ statRes' = statRes
    /\ CollectFrame

\* the value collectRebootRequired sends for an outcome of os.Stat
RebootValue(r) == IF r = "notexist" THEN 0 ELSE 1

\* collectRebootRequired, then the up = 1 of Collect
CollectRebootRequired ==
    /\ Alive
    /\ cpc = "reboot"
    /\ \E r \in StatOutcomes :
          /\ statRes' = r
          /\ ch' = ch \o << RebootRequired(RebootValue(r)), Up(1) >>
    /\ cpc' = "idle"
    /\ view' = view
    /\ CollectFrame

-----------------------------------------------------------------------------
(* The program, and the exporter under a test that calls its methods *)

Refresh ==
    \E t \in Threads : CommandFails(t) \/ CommandOutput(t) \/ CacheSet(t)

Watcher == WatchError \/ \E p \in EventPaths : Notify(p)

Loop == LoopEvent \/ LoopError

Collect == CollectInstalled \/ CollectUpgradeable \/ CollectRebootRequired

Next ==
    \/ NewAptExporter
    \/ WatchGo
    \/ Refresh
    \/ AddHistoryLog
    \/ AddPeriodicDir
    \/ RegisterAndListen
    \/ Watcher
    \/ Loop
    \/ Collect

Spec == Init /\ [][Next]_vars

NextTest ==
    \/ NewAptExporter
    \/ WatchGo
    \/ Refresh
    \/ AddHistoryLog
    \/ AddPeriodicDir
    \/ Watcher
    \/ Loop
    \/ LoopClosed
    \/ Close
    \/ Collect

SpecTest == InitTest /\ [][NextTest]_vars

SpecCollect == InitCollect /\ [][Collect]_vars

-----------------------------------------------------------------------------
(* parseAptOutput on what the listing command may print *)

LineCRLF == <<"a", "/", "s", " ", "1", " ", "x", CR>>
LineTwoSlashes == <<"a", "/", "b", "/", "c", " ", "1", " ", "x">>
LineTwoSpaces == <<"a", "/", "s", " ", " ", "1", " ", "x">>
LineNoName == <<"/", "s", " ", "1", " ", "x">>
LineNoSuite == <<"a", "/", " ", "1", " ", "x">>
LineEmptySuite == <<"a", "/", "s", ",", ",", "u", " ", "1", " ", "x">>
LineRepeatedSuites == <<"a", "/", "u", ",", "s", ",", "u", ",", "s", " ", "1", " ", "x">>
LineNoArchitecture == <<"a", "/", "s", " ", "1">>
LineIndented == <<" ", "a", "/", "s", " ", "1", " ", "x">>

\* a line of n bytes that is no package line
Filler(n) == [i \in 1..n |-> IF i = 1 THEN SP ELSE "a"]

\* the longest line the Scanner returns, and the shortest it does not
LongestLine == Filler(MaxScanTokenSize - 1)
TooLongLine == Filler(MaxScanTokenSize)

TestLines ==
    { << >>, Header, LineA, LineB, LineC, LineCRLF, LineTwoSlashes,
      LineTwoSpaces, LineNoName, LineNoSuite, LineEmptySuite,
      LineRepeatedSuites, LineNoArchitecture, LineIndented,
      LongestLine, TooLongLine }

MaxLines == 2

\* the texts of n of these lines, each ended by a newline
RECURSIVE Texts(_)
Texts(n) ==
    IF n = 0 THEN { << >> }
    ELSE { l \o <<NL>> \o t : l \in TestLines, t \in Texts(n - 1) }

\* those texts, and the same without their last newline
ParseInputs(max) ==
    LET ts == UNION { Texts(n) : n \in 0..max } IN
    ts \cup { SubSeq(t, 1, Len(t) - 1) : t \in ts \ { << >> } }

\* cacheInstalledPackages has got one of these outputs from its command
InitParse ==
    /\ client = "test"
    /\ pc = [t \in Threads |-> IF t = "main" THEN "setInst" ELSE "select"]
    /\ cur = ""
    /\ lLog = << >>
    /\ out \in { [t \in Threads |-> IF t = "main" THEN << raw >> ELSE << >>] :
                 raw \in ParseInputs(MaxLines) }
    /\ cache = [k \in Kinds |-> NotFound]
    /\ age = Latest
    /\ watched = {}
    /\ events = << >>
    /\ errs = 0
    /\ closed = FALSE
    /\ cpc = "idle"
    /\ view = [k \in Kinds |-> Unread]
    /\ statRes = "none"
    /\ ch = << >>

SpecParse == InitParse /\ [][CacheSet("main")]_vars

\* parseAptOutput of each listing the command prints, computed once
ParsedOutput == [o \in RawOutputs |-> parseAptOutput(o)]

\* CacheSet by the loop goroutine, the parse taken from ParsedOutput
LoopCacheSet ==
    /\ Alive
    /\ pc["loop"] \in {"setInst", "setUpg"}
    /\ cache' = [cache EXCEPT ![KindAt(pc["loop"])] =
                                 Found(ParsedOutput[out["loop"][1]])]
    /\ out' = [out EXCEPT !["loop"] = << >>]
    /\ age' = AgeAfterSet("loop")
    /\ pc' = [pc EXCEPT !["loop"] = AfterRefresh("loop", pc["loop"], TRUE)]
    /\ UNCHANGED <<client, cur, lLog, watcherVars, scrapeVars>>

\* the steps of a refresh that the loop is in: the command returns and the
\* function goes on to its end
LoopRefresh == CommandFails("loop") \/ CommandOutput("loop") \/ LoopCacheSet

\* an exporter whose Watch has returned nil to a test: both snapshots are
\* cached, both watches registered, the loop is at its select
InitLoop ==
    /\ client = "test"
    /\ pc = [t \in Threads |-> IF t = "main" THEN "returned" ELSE "select"]
    /\ cur = ""
    /\ lLog = << >>
    /\ out = [t \in Threads |-> << >>]
    /\ cache \in [Kinds -> { Found(parseAptOutput(o)) : o \in RawOutputs }]
    /\ age = Latest
    /\ watched = {HistoryLog, PeriodicDir}
    /\ events = << >>
    /\ errs = 0
    /\ closed = FALSE
    /\ cpc = "idle"
    /\ view = [k \in Kinds |-> Unread]
    /\ statRes = "none"
    /\ ch = << >>

NextLoop ==
    \/ Watcher
    \/ Loop
    \/ LoopRefresh
    \/ LoopClosed
    \/ Close

\* the loop of that exporter until the test closes it, with a loop goroutine
\* that is scheduled: a refresh it has started comes to its end, and a select
\* with a closed channel returns
SpecLoop ==
    InitLoop /\ [][NextLoop]_vars /\ WF_vars(LoopRefresh) /\ WF_vars(LoopClosed)

-----------------------------------------------------------------------------
(* Vocabulary of the properties *)

Stamps == {UpdateStamp, UpdateSuccessStamp}

FamilyOf(k) ==
    IF k = CACHE_INSTALLED_PACKAGES THEN AptPackagesInstalled
    ELSE AptPackagesUpgradeable

\* goroutine t leaves Output() with an error in this step
RefreshFailsIn(t) ==
    /\ pc[t] \in {"cacheInst", "cacheUpg"}
    /\ pc'[t] \notin {pc[t], "setInst", "setUpg"}

\* the scrape asks the cache for key k in this step
ScrapeReads(k) ==
    IF k = CACHE_INSTALLED_PACKAGES
    THEN cpc = "idle" /\ view'[k].read /\ <<cpc, view, ch>>' # <<cpc, view, ch>>
    ELSE cpc = "upgradeable" /\ cpc' # cpc

\* what the scrape has sent in this step
SentNow == IF cpc = "idle" THEN ch' ELSE SubSeq(ch', Len(ch) + 1, Len(ch'))

\* q holds each sample of S once and nothing else
IsOrderingOf(q, S) == Len(q) = Cardinality(S) /\ Range(q) = S

LastLog == lLog[Len(lLog)]

-----------------------------------------------------------------------------
(* C1: a refresh whose listing command fails leaves the cache entry of its  *)
(* kind as it was, and a scrape that then finds the entry sends the counts  *)
(* of the snapshot the entry holds.                                         *)

C1_FailedRefreshStep ==
    \A t \in Threads :
        RefreshFailsIn(t) => cache'[KindAt(pc[t])] = cache[KindAt(pc[t])]

C1_ScrapeStep ==
    \A k \in Kinds :
        ScrapeReads(k) /\ cache[k].found =>
            /\ view'[k] = Read(cache[k])
            /\ IsOrderingOf(SentNow, VecSamples(FamilyOf(k), cache[k].ps))

C1_FailedRefreshKeepsSnapshot ==
    [][C1_FailedRefreshStep /\ C1_ScrapeStep]_vars

\* the loop's upgradeable refresh has failed and a scrape holds the
\* snapshot that is still cached, its counts sent
C1_Witness ==
    /\ pc["loop"] = "select"
    /\ lLog # << >>
    /\ LastLog = [kind |-> CACHE_UPGRADEABLE_PACKAGES, ok |-> FALSE]
    /\ cpc = "reboot"
    /\ view[CACHE_UPGRADEABLE_PACKAGES] = Read(cache[CACHE_UPGRADEABLE_PACKAGES])
    /\ Len(cache[CACHE_UPGRADEABLE_PACKAGES].ps) > 0
    /\ \E i \in 1..Len(ch) : ch[i].name = AptPackagesUpgradeable

-----------------------------------------------------------------------------
(* C2: once Watch has returned nil both keys are in the cache and stay      *)
(* there, and no scrape of the running program sends up = 0: a finished     *)
(* scrape ends with up = 1.                                                 *)

C2_ServingAlwaysUp ==
    /\ pc["main"] \in {"register", "serve"} => \A k \in Kinds : cache[k].found
    /\ \A i \in 1..Len(ch) : ch[i] # Up(0)
    /\ cpc = "idle" /\ ch # << >> => ch[Len(ch)] = Up(1)

\* a scrape has finished after a refresh of the loop failed
C2_Witness ==
    /\ pc["main"] = "serve"
    /\ pc["loop"] = "select"
    /\ lLog # << >>
    /\ ~LastLog.ok
    /\ cpc = "idle"
    /\ ch # << >>

-----------------------------------------------------------------------------
(* C3: for a consumed event on the history log the loop runs the installed  *)
(* refresh once and then the upgradeable refresh once, whether or not the   *)
(* installed refresh failed.                                                *)

LogKinds == [i \in 1..Len(lLog) |-> lLog[i].kind]

C3_HistoryLogRefreshesBoth ==
    cur = HistoryLog =>
        /\ pc["loop"] = "cacheInst" => LogKinds = << >>
        /\ pc["loop"] \in {"setInst", "cacheUpg"} =>
              LogKinds = << CACHE_INSTALLED_PACKAGES >>
        /\ pc["loop"] \in {"setUpg", "select"} =>
              LogKinds = << CACHE_INSTALLED_PACKAGES, CACHE_UPGRADEABLE_PACKAGES >>

\* the event is handled and its installed refresh had failed
C3_Witness ==
    /\ cur = HistoryLog
    /\ pc["loop"] = "select"
    /\ Len(lLog) = 2
    /\ ~lLog[1].ok
    /\ lLog[2].ok

-----------------------------------------------------------------------------
(* C4: for a consumed event on one of the two stamp files the loop runs the *)
(* upgradeable refresh once and no installed refresh, and no step from the  *)
(* receipt of the event to the end of its handling changes the installed    *)
(* snapshot.                                                                *)

LoopBusy == pc["loop"] \in {"cacheInst", "setInst", "cacheUpg", "setUpg"}

C4_State ==
    cur \in Stamps =>
        /\ pc["loop"] \notin {"cacheInst", "setInst"}
        /\ pc["loop"] = "cacheUpg" => LogKinds = << >>
        /\ pc["loop"] \in {"setUpg", "select"} =>
              LogKinds = << CACHE_UPGRADEABLE_PACKAGES >>

C4_Step ==
    (cur \in Stamps /\ LoopBusy) \/ (cur' \in Stamps /\ LoopBusy') =>
        cache'[CACHE_INSTALLED_PACKAGES] = cache[CACHE_INSTALLED_PACKAGES]

C4_StampRefreshesUpgradeableOnly == [](C4_State) /\ [][C4_Step]_vars

\* a stamp event is handled: the upgradeable snapshot was replaced and
\* differs from the installed one
C4_Witness ==
    /\ cur = UpdateSuccessStamp
    /\ pc["loop"] = "select"
    /\ lLog = << [kind |-> CACHE_UPGRADEABLE_PACKAGES, ok |-> TRUE] >>
    /\ cache[CACHE_UPGRADEABLE_PACKAGES] = Found(parseAptOutput(OutNone))
    /\ cache[CACHE_INSTALLED_PACKAGES] = Found(parseAptOutput(OutTwo))

-----------------------------------------------------------------------------
(* C5: the receipt of an event on any other path starts no refresh and      *)
(* leaves the cache as it was.                                              *)

Ignored(name) == name \notin {HistoryLog} \cup Stamps

\* the loop receives the event at the head of the queue in this step
Receives ==
    /\ pc["loop"] = "select"
    /\ events # << >>
    /\ events' = Tail(events)
    /\ cur' = Head(events)
    /\ lLog' = << >>

C5_State == cur # "" /\ Ignored(cur) => ~LoopBusy /\ lLog = << >>

C5_Step ==
    Receives /\ Ignored(Head(events)) => UNCHANGED <<cache, out, pc>>

C5_OtherPathIgnored == [](C5_State) /\ [][C5_Step]_vars

\* an event on another file of the directory has been received
C5_Witness ==
    /\ cur = OtherPeriodicFile
    /\ pc["loop"] = "select"
    /\ lLog = << >>
    /\ \A k \in Kinds : cache[k].found

-----------------------------------------------------------------------------
(* C6: no step of a scrape runs a listing command or writes the cache: it   *)
(* leaves the cache, the command outputs held, the positions of the         *)
(* refreshing goroutines and the watcher as they were.                      *)

ScrapeStep == scrapeVars' # scrapeVars

C6_CollectOnlyReads ==
    [][ScrapeStep => UNCHANGED <<cache, out, pc, cur, lLog, watcherVars>>]_vars

\* a scrape missed the upgradeable key while Watch had not yet stored it,
\* and the key is still missing
C6_Witness ==
    /\ pc["main"] \in {"cacheUpg", "setUpg"}
    /\ cpc = "idle"
    /\ view[CACHE_INSTALLED_PACKAGES].found
    /\ view[CACHE_UPGRADEABLE_PACKAGES].read
    /\ ~view[CACHE_UPGRADEABLE_PACKAGES].found
    /\ ~cache[CACHE_UPGRADEABLE_PACKAGES].found

-----------------------------------------------------------------------------
(* C7: a scrape that does not find the installed snapshot sends up = 0 and  *)
(* nothing else, and ends there: it neither asks for the upgradeable        *)
(* snapshot nor looks at the reboot marker.                                 *)

C7_InstalledMissOnlyUpZero ==
    view[CACHE_INSTALLED_PACKAGES].read /\ ~view[CACHE_INSTALLED_PACKAGES].found =>
        /\ cpc = "idle"
        /\ ch = << Up(0) >>
        /\ ~view[CACHE_UPGRADEABLE_PACKAGES].read
        /\ statRes = "none"

\* the installed key was missing while the upgradeable key held packages
C7_Witness ==
    /\ view[CACHE_INSTALLED_PACKAGES].read
    /\ ~cache[CACHE_INSTALLED_PACKAGES].found
    /\ cache[CACHE_UPGRADEABLE_PACKAGES].found
    /\ Len(cache[CACHE_UPGRADEABLE_PACKAGES].ps) > 0
    /\ ch = << Up(0) >>

-----------------------------------------------------------------------------
(* C8: a scrape that finds the installed snapshot and not the upgradeable   *)
(* one has sent the installed counts, then up = 0, and has ended: no        *)
(* upgradeable count, no reboot-required sample, no up = 1.                 *)

C8_UpgradeableMissPartialResult ==
    /\ view[CACHE_INSTALLED_PACKAGES].found
    /\ view[CACHE_UPGRADEABLE_PACKAGES].read
    /\ ~view[CACHE_UPGRADEABLE_PACKAGES].found
    => /\ cpc = "idle"
       /\ statRes = "none"
       /\ Len(ch) >= 1
       /\ ch[Len(ch)] = Up(0)
       /\ \A i \in 1..(Len(ch) - 1) : ch[i].name = AptPackagesInstalled
       /\ IsOrderingOf(SubSeq(ch, 1, Len(ch) - 1),
                       VecSamples(AptPackagesInstalled,
                                  view[CACHE_INSTALLED_PACKAGES].ps))

\* installed counts were sent before the up = 0
C8_Witness ==
    /\ view[CACHE_INSTALLED_PACKAGES].found
    /\ view[CACHE_UPGRADEABLE_PACKAGES].read
    /\ ~view[CACHE_UPGRADEABLE_PACKAGES].found
    /\ Len(ch) = 4

-----------------------------------------------------------------------------
(* Counts by architecture and suite *)

\* the (record, suite) pairs of ps, as index pairs
RecordSuitePairs(ps) ==
    UNION { { <<i, j>> : j \in 1..Len(ps[i].Suites) } : i \in 1..Len(ps) }

\* the number of those with architecture a and suite s
PairCount(ps, a, s) ==
    Cardinality({ ij \in RecordSuitePairs(ps) :
                    /\ ps[ij[1]].Architecture = a
                    /\ ps[ij[1]].Suites[ij[2]] = s })

\* the positions of ch that hold a sample of the family
FamilyAt(name) == { i \in 1..Len(ch) : ch[i].name = name }

\* every sample of the family carries, under the labels architecture = a and
\* suite = s, the number of pairs with that architecture and suite, which is
\* at least 1; and every such pair is counted by exactly one sample
CountsByArchitectureAndSuite(name, ps) ==
    /\ \A i \in FamilyAt(name) :
          /\ ch[i].value = PairCount(ps, ch[i].labels[1], ch[i].labels[2])
          /\ ch[i].value >= 1
    /\ \A ij \in RecordSuitePairs(ps) :
          Cardinality({ i \in FamilyAt(name) :
                          ch[i].labels = << ps[ij[1]].Architecture,
                                            ps[ij[1]].Suites[ij[2]] >> }) = 1

-----------------------------------------------------------------------------
(* C9: the installed count with architecture = a and suite = s is the       *)
(* number of (record, suite) pairs of the installed snapshot with that      *)
(* architecture and suite, and no other installed count is sent.            *)

C9_InstalledCounts ==
    view[CACHE_INSTALLED_PACKAGES].found =>
        CountsByArchitectureAndSuite(AptPackagesInstalled,
                                     view[CACHE_INSTALLED_PACKAGES].ps)

-----------------------------------------------------------------------------
(* C10: the upgradeable count with architecture = a and suite = s is the    *)
(* number of (record, suite) pairs of the upgradeable snapshot with that    *)
(* architecture and suite; every count sent is at least 1.                  *)

C10_UpgradeableCounts ==
    view[CACHE_UPGRADEABLE_PACKAGES].found =>
        CountsByArchitectureAndSuite(AptPackagesUpgradeable,
                                     view[CACHE_UPGRADEABLE_PACKAGES].ps)

\* two packages of one architecture and suite were counted together
C10_Witness ==
    /\ view[CACHE_UPGRADEABLE_PACKAGES].found
    /\ cpc = "idle"
    /\ \E i \in FamilyAt(AptPackagesUpgradeable) :
          ch[i] = Sample(AptPackagesUpgradeable, << <<"x">>, <<"s">> >>, 2)

-----------------------------------------------------------------------------
(* C11: a scrape that found both snapshots sends exactly one                *)
(* reboot-required sample, with value 1 when the existence check            *)
(* establishes that the marker exists and value 0 in every other case,      *)
(* a check that fails for another reason than the path being absent         *)
(* included.                                                                *)

RebootAt == { i \in 1..Len(ch) : ch[i].name = AptRebootRequired }

C11_RebootRequiredOnlyWhenMarkerExists ==
    /\ cpc = "idle"
    /\ view[CACHE_INSTALLED_PACKAGES].found
    /\ view[CACHE_UPGRADEABLE_PACKAGES].found
    => /\ Cardinality(RebootAt) = 1
       /\ \A i \in RebootAt :
             ch[i].value = (IF statRes = "exists" THEN 1 ELSE 0)

-----------------------------------------------------------------------------
(* C12: a failure of any step of the startup (the construction of the       *)
(* watcher, an initial refresh, a registration of a watch) ends the process *)
(* at once: the steps of Watch after the failing one are not run, the       *)
(* collector is not registered, the listener is not started, and no scrape  *)
(* is served; a scrape is served only after every step has succeeded.       *)

\* a step of the startup fails in this step
StartupFails ==
    \/ pc["main"] = "new" /\ pc'["main"] \notin {"new", "watch"}
    \/ RefreshFailsIn("main")
    \/ /\ pc["main"] \in {"addHist", "addPeriodic"}
       /\ pc'["main"] # pc["main"]
       /\ watched' = watched

Scraped ==
    \/ cpc # "idle"
    \/ ch # << >>
    \/ \E k \in Kinds : view[k].read

\* the process has ended before the last step of Watch succeeded
StartupFailed == pc["main"] = "exit" /\ PeriodicDir \notin watched

C12_State ==
    /\ Scraped => pc["main"] = "serve"
    /\ pc["main"] \in {"register", "serve"} =>
          /\ \A k \in Kinds : cache[k].found
          /\ watched = {HistoryLog, PeriodicDir}
    /\ StartupFailed =>
          /\ pc["loop"] = "none" => watched = {} /\ \A k \in Kinds : ~cache[k].found
          /\ ~cache[CACHE_INSTALLED_PACKAGES].found => watched = {}
          /\ HistoryLog \notin watched =>
                /\ ~cache[CACHE_UPGRADEABLE_PACKAGES].found
                /\ lLog = << >>
                /\ events = << >>

C12_Step ==
    /\ StartupFails => pc'["main"] = "exit" /\ UNCHANGED <<cache, watched, scrapeVars>>
    /\ pc["main"] # "exit"

C12_StartupFailureEndsProcess == [](C12_State) /\ [][C12_Step]_vars

\* the process ended at the failure of the initial upgradeable refresh
C12_Witness ==
    /\ pc["main"] = "exit"
    /\ watched = {HistoryLog}
    /\ cache[CACHE_INSTALLED_PACKAGES].found
    /\ ~cache[CACHE_UPGRADEABLE_PACKAGES].found

-----------------------------------------------------------------------------
(* C13: on each key the writes are ordered and the last one wins: a Set     *)
(* makes the entry the value it is called with, whatever the entry held,    *)
(* nothing but a Set on the key changes the entry, and a Get returns the    *)
(* entry as it then is, that is the value of the most recent Set on the     *)
(* key, also while another goroutine is between its command and its Set.    *)

\* goroutine t calls e.cache.Set on key k in this step
SetsKey(t, k) ==
    /\ pc[t] \in {"setInst", "setUpg"}
    /\ KindAt(pc[t]) = k
    /\ pc'[t] # pc[t]

C13_Step ==
    \A k \in Kinds :
       /\ \A t \in Threads :
             SetsKey(t, k) => cache'[k] = Found(parseAptOutput(out[t][1]))
       /\ (\A t \in Threads : ~SetsKey(t, k)) => cache'[k] = cache[k]
       /\ ScrapeReads(k) => view'[k] = Read(cache[k])

C13_GetReturnsLastSet == [][C13_Step]_vars

\* a scrape has read the value of an earlier Set on the upgradeable key while
\* a goroutine holds another value that it is about to Set on that key
C13_Witness ==
    /\ \E t \in Threads :
          /\ pc[t] = "setUpg"
          /\ Found(parseAptOutput(out[t][1])) # cache[CACHE_UPGRADEABLE_PACKAGES]
    /\ cache[CACHE_UPGRADEABLE_PACKAGES].found
    /\ view[CACHE_UPGRADEABLE_PACKAGES] = Read(cache[CACHE_UPGRADEABLE_PACKAGES])
    /\ cpc = "reboot"

-----------------------------------------------------------------------------
(* C14: at most one refresh of a kind is in flight at any time, the startup *)
(* included: the initial refresh of a kind by Watch never overlaps a        *)
(* refresh of that kind by the loop.                                        *)

\* goroutine t is inside the refresh function of kind k
InRefresh(t, k) ==
    /\ pc[t] \in {"cacheInst", "setInst", "cacheUpg", "setUpg"}
    /\ KindAt(pc[t]) = k

C14_OneRefreshPerKindInFlight ==
    \A k \in Kinds :
        Cardinality({ t \in Threads : InRefresh(t, k) }) <= 1

-----------------------------------------------------------------------------
(* C15: the loop consumes no filesystem event, and so starts no refresh,    *)
(* before the initial refresh of both kinds by Watch has completed.         *)

InitialRefreshAt == {"new", "watch", "cacheInst", "setInst", "addHist",
                     "cacheUpg", "setUpg"}

C15_InitialRefreshBeforeEvents ==
    pc["main"] \in InitialRefreshAt => cur = "" /\ ~LoopBusy

-----------------------------------------------------------------------------
(* C16: the receipt of an error of the watcher leaves the loop at its       *)
(* select, ready for the next event, and changes neither the cache nor      *)
(* anything else of the exporter; the loop ends only when the watcher has   *)
(* been closed, and once the watcher is closed a running loop does end.     *)

\* the loop takes an error from e.watcher.Errors in this step
ErrorReceived == errs' = errs - 1 /\ closed' = closed

C16_Step ==
    /\ ErrorReceived =>
          /\ pc["loop"] = "select"
          /\ UNCHANGED <<pc, cache, out, cur, lLog, events, watched>>
    /\ pc'["loop"] = "stopped" => closed

C16_ErrorKeepsLoopCloseEndsIt ==
    /\ [][C16_Step]_vars
    /\ [](pc["loop"] = "stopped" => closed)
    /\ (closed /\ pc["loop"] # "none") ~> (pc["loop"] = "stopped")

\* the loop has handled an event and has ended after the watcher was closed
C16_Witness ==
    /\ pc["loop"] = "stopped"
    /\ closed
    /\ cur # ""
    /\ lLog # << >>

-----------------------------------------------------------------------------
(* C17: every snapshot a scrape reads under a key is, as a whole, the       *)
(* parse of the output of one successful run of the listing command of      *)
(* that kind: never a part of one, never records of two runs; the output a  *)
(* goroutine stores under a key is the one its command of that kind has     *)
(* returned, and storing it touches no other key.                           *)

\* the snapshots that are the parse of one output of the command
WholeSnapshots == { Found(parseAptOutput(o)) : o \in RawOutputs }

C17_State ==
    \A k \in Kinds :
       /\ view[k].read /\ view[k].found => Found(view[k].ps) \in WholeSnapshots
       /\ cache[k].found => cache[k] \in WholeSnapshots

C17_Step ==
    \A t \in Threads :
       /\ pc'[t] \in {"setInst", "setUpg"} /\ pc'[t] # pc[t] =>
             /\ pc[t] \in {"cacheInst", "cacheUpg"}
             /\ KindAt(pc'[t]) = KindAt(pc[t])
             /\ \E o \in RawOutputs : out'[t] = << o >>
       /\ \A k \in Kinds :
             SetsKey(t, k) => \A j \in Kinds \ {k} : cache'[j] = cache[j]

C17_ScrapeReadsWholeSnapshot == [](C17_State) /\ [][C17_Step]_vars

\* a scrape has read the installed snapshot of two packages while the loop
\* is about to replace it by an empty one
C17_Witness ==
    /\ view[CACHE_INSTALLED_PACKAGES].found
    /\ Len(view[CACHE_INSTALLED_PACKAGES].ps) = 2
    /\ pc["loop"] = "setInst"
    /\ out["loop"] = << OutNone >>
    /\ cpc = "upgradeable"

-----------------------------------------------------------------------------
(* C18: a successful refresh leaves under its key exactly the records       *)
(* parsed from the output of its command, whatever the key held before:     *)
(* nothing of the previous snapshot is kept or merged in; a refresh whose   *)
(* command prints what the cached snapshot was parsed from leaves an equal  *)
(* snapshot.                                                                *)

C18_Step ==
    \A t \in Threads : \A k \in Kinds :
       SetsKey(t, k) =>
          /\ cache'[k].found
          /\ cache'[k].ps = parseAptOutput(out[t][1])
          /\ \A o \in RawOutputs :
                cache[k] = Found(parseAptOutput(o)) /\ out[t] = << o >>
                   => cache'[k] = cache[k]

C18_RefreshReplacesSnapshot == [][C18_Step]_vars

\* the loop has refreshed the upgradeable snapshot, found with two packages
\* by the startup, to the empty one and is back at its select
C18_Witness ==
    /\ pc["loop"] = "select"
    /\ lLog # << >>
    /\ LastLog = [kind |-> CACHE_UPGRADEABLE_PACKAGES, ok |-> TRUE]
    /\ cache[CACHE_UPGRADEABLE_PACKAGES] = Found(<< >>)
    /\ cache[CACHE_INSTALLED_PACKAGES] = Found(parseAptOutput(OutTwo))
    /\ cur \in Stamps

-----------------------------------------------------------------------------
(* Lines, package lines and suite lists, as the listing format defines them *)

\* the j-th smallest element of a set P of numbers
Nth(P, j) == CHOOSE p \in P : Cardinality({ q \in P : q < p }) = j - 1

\* the pieces of s between the occurrences of c, in order
Pieces(s, c) ==
    LET P == { i \in 1..Len(s) : s[i] = c }
        n == Cardinality(P)
        cut(j) == IF j = 0 THEN 0 ELSE IF j = n + 1 THEN Len(s) + 1 ELSE Nth(P, j)
    IN  [j \in 1..(n + 1) |-> SubSeq(s, cut(j - 1) + 1, cut(j) - 1)]

\* the lines of a text: the pieces between its newlines, without the empty
\* piece after the last newline, each without a carriage return at its end
LinesOf(raw) ==
    LET ps == Pieces(raw, NL)
        m == IF ps[Len(ps)] = << >> THEN Len(ps) - 1 ELSE Len(ps)
    IN  [j \in 1..m |->
            IF ps[j] # << >> /\ ps[j][Len(ps[j])] = CR
            THEN SubSeq(ps[j], 1, Len(ps[j]) - 1)
            ELSE ps[j]]

\* the ends of the word of l that starts at a (one end, or none)
WordEnds(l, a) ==
    { b \in a..Len(l) :
        /\ \A i \in a..b : l[i] # SP
        /\ b = Len(l) \/ l[b + 1] = SP }

\* the places of l where a package line has its fields, if l is one:
\* name "/" suites, one space, a version, one space, an architecture
FieldsOf(l) ==
    { f \in UNION { UNION { { <<e1, e2, e3>> : e3 \in WordEnds(l, e2 + 2) }
                            : e2 \in WordEnds(l, e1 + 2) \ {Len(l)} }
                    : e1 \in WordEnds(l, 1) \ {Len(l)} } :
        \E n \in 2..(f[1] - 1) : l[n] = SLASH }

IsPackageLine(l) == FieldsOf(l) # {}

\* the "/" that ends the name: the last one that leaves a suite list
NameSlash(l) ==
    LET f == CHOOSE g \in FieldsOf(l) : TRUE
        P == { n \in 2..(f[1] - 1) : l[n] = SLASH }
    IN  Nth(P, Cardinality(P))

NameOf(l) == SubSeq(l, 1, NameSlash(l) - 1)
SuiteListOf(l) ==
    SubSeq(l, NameSlash(l) + 1, (CHOOSE g \in FieldsOf(l) : TRUE)[1])
ArchitectureOf(l) ==
    LET f == CHOOSE g \in FieldsOf(l) : TRUE IN SubSeq(l, f[2] + 2, f[3])

\* the first place of token x in the token list
FirstAt(toks, x) == Nth({ i \in 1..Len(toks) : toks[i] = x }, 1)

\* ps holds the records of the package lines of the text raw, as described
RecordsOfPackageLines(raw, ps) ==
    LET ls == LinesOf(raw)
        M == { j \in 1..Len(ls) : IsPackageLine(ls[j]) }
    IN  /\ Len(ps) = Cardinality(M)
        /\ \A j \in M :
              LET r == ps[1 + Cardinality({ i \in M : i < j })]
                  toks == Pieces(SuiteListOf(ls[j]), COMMA)
              IN  /\ r.Name = NameOf(ls[j])
                  /\ r.Architecture = ArchitectureOf(ls[j])
                  /\ Range(r.Suites) = Range(toks)
                  /\ Len(r.Suites) = Cardinality(Range(toks))
                  /\ Len(r.Suites) >= 1
                  /\ \A a, b \in 1..Len(r.Suites) :
                        a < b => FirstAt(toks, r.Suites[a]) < FirstAt(toks, r.Suites[b])

-----------------------------------------------------------------------------
(* C19: for every output of the listing command the parse holds one record  *)
(* for each package line, in the order of the lines, and none for another   *)
(* line; the suites of a record are the distinct tokens of the line's suite *)
(* list, each once, in the order of their first appearance: at least one,   *)
(* and no duplicate.                                                        *)

C19_Step ==
    SetsKey("main", CACHE_INSTALLED_PACKAGES) =>
        RecordsOfPackageLines(out["main"][1], cache'[CACHE_INSTALLED_PACKAGES].ps)

C19_OneRecordPerPackageLine == [][C19_Step]_vars

-----------------------------------------------------------------------------
(* C20: a successful refresh never replaces a snapshot by one that comes    *)
(* from an earlier run of the listing command than the snapshot it          *)
(* overwrites, in every interleaving of the startup with the refreshes the  *)
(* loop runs: what a goroutine stores has not been overtaken.               *)

C20_Step ==
    \A t \in Threads : \A k \in Kinds :
        SetsKey(t, k) => age[t] # "overtaken"

C20_FreshnessMonotone == [][C20_Step]_vars

====
